---- MODULE Spec2Model ----
(***************************************************************************)
(* Model of the uPiot MicroPython tool:                                    *)
(*   src/tools/sampy_manager.py   session manager and command dispatcher   *)
(*   src/commands/burn_firmware.py  firmware option compiler and flasher   *)
(*                                                                         *)
(* A Python str is a sequence of one-character strings (a console text is  *)
(* a sequence of tokens in which every "\r" and "\n" is its own token), so *)
(* that `in`, endswith, replace, split and + are computed, not assumed.    *)
(***************************************************************************)
EXTENDS Integers, Sequences, FiniteSets, TLC

VARIABLES
    \* ---- tools/sampy_manager.py
    txt,          \* module global txt: the port the current sink is bound to
    port,         \* module global port
    in_use,       \* serial.in_use: ports with a registered running session
    nopen,        \* per port, the number of sessions that are Open or Busy
    pc,           \* per task, the position of its dispatch
    op,           \* per task, the dispatch function it runs
    arg,          \* per task, the argument of the dispatch function
    sampy,        \* per task, the local variable sampy
    error,        \* per task, the local variable error of get_files
    fault,        \* per task, the exception that left the dispatch function
    nopen0,       \* per task, nopen when its dispatch began
    trace,        \* per task, what its dispatch has done so far, in order
    \* ---- commands/burn_firmware.py
    board_files,  \* per board, the 'upload' object of <board>.json
    board,        \* the 'board' setting
    self_port,    \* upiotBurnFirmwareCommand.port
    items,        \* upiotBurnFirmwareCommand.items
    firmwares,    \* upiotBurnFirmwareCommand.firmwares
    url,          \* upiotBurnFirmwareCommand.url
    options,      \* the local list options of burn_firmware
    compiled,     \* what the last get_board_options call returned
    answer,       \* the answer to the erase prompt
    fpc,          \* the position of the flash request
    ftrace        \* what the flash request has done so far, in order

sampy_vars == <<txt, port, in_use, nopen, pc, op, arg, sampy, error, fault,
                nopen0, trace>>
flash_vars == <<board_files, board, self_port, items, firmwares, url, options,
                compiled, answer, fpc, ftrace>>
vars == <<sampy_vars, flash_vars>>

-----------------------------------------------------------------------------
(* Bounds *)

\* the largest number of keys of an 'upload' object
MaxKeys == 3
\* the largest number of entries sampy.ls() returns
MaxEntries == 2
\* the largest number of tokens of a fetched file
MaxContent == 3

-----------------------------------------------------------------------------
(* Python str and list operations *)

Last(s) == s[Len(s)]

\* s.endswith(suf)
endswith(s, suf) ==
    /\ Len(suf) <= Len(s)
    /\ SubSeq(s, Len(s) - Len(suf) + 1, Len(s)) = suf

\* sub in s
contains(s, sub) ==
    \E i \in 0..(Len(s) - Len(sub)) : SubSeq(s, i + 1, i + Len(sub)) = sub

\* s.replace(old, new), old not empty: leftmost matches, not overlapping
RECURSIVE replace(_, _, _)
replace(s, old, new) ==
    IF Len(s) < Len(old) THEN s
    ELSE IF SubSeq(s, 1, Len(old)) = old
         THEN new \o replace(SubSeq(s, Len(old) + 1, Len(s)), old, new)
         ELSE <<s[1]>> \o replace(Tail(s), old, new)

\* s.split('/')[-1]
RECURSIVE last_segment(_)
last_segment(s) ==
    IF s = <<>> THEN <<>>
    ELSE IF Last(s) = "/" THEN <<>>
    ELSE last_segment(SubSeq(s, 1, Len(s) - 1)) \o <<Last(s)>>

\* os.path.join(a, b) for a relative b
join(a, b) == a \o <<"/">> \o b

\* list.count(x)
count(list, x) == Cardinality({i \in 1..Len(list) : list[i] = x})

\* the sequences over S of length at most n
RECURSIVE SeqUpTo(_, _)
SeqUpTo(S, n) ==
    IF n = 0 THEN {<<>>}
    ELSE LET shorter == SeqUpTo(S, n - 1)
         IN  shorter \cup {Append(s, x) : s \in shorter, x \in S}

-----------------------------------------------------------------------------
(* Values *)

\* a port that is None or '' (falsy)
NoPort == <<>>
Ports == {<<"C", "O", "M", "3">>, <<"C", "O", "M", "4">>}

ESP32 == <<"e", "s", "p", "3", "2">>
ESP8266 == <<"e", "s", "p", "8", "2", "6", "6">>
Boards == {ESP32, ESP8266}

WRITE_FLASH == <<"w", "r", "i", "t", "e", "_", "f", "l", "a", "s", "h">>

\* keys of an 'upload' object: a flag, a flag ending in '=', the reserved key
\* and a flag whose name has the reserved key inside it
Keys ==
    { <<"-", "z">>,
      <<"-", "-", "f", "m", "=">>,
      WRITE_FLASH,
      <<"-", "-">> \o WRITE_FLASH }

Values == { <<"d", "i", "o">>, <<"0", "x", "1", " ", "f">> }

\* the ordered 'upload' objects: JSON objects, so no key twice
Configs ==
    { c \in SeqUpTo(Keys \X Values, MaxKeys) :
        \A i, j \in 1..Len(c) : c[i][1] = c[j][1] => i = j }

\* the 'upload' object of the board that burn_firmware does not name
OtherConfigs ==
    { << <<WRITE_FLASH, <<"d", "i", "o">> >> >>,
      << <<WRITE_FLASH, <<"0", "x", "1", " ", "f">> >>, << <<"-", "z">>, <<"d", "i", "o">> >> >> }

\* the files of a firmware folder, as glob lists them
FirmwareFiles == << <<"a", ".", "b", "i", "n">>, <<"b", ".", "b", "i", "n">> >>

DIALOG_CANCEL == "DIALOG_CANCEL"
DIALOG_YES == "DIALOG_YES"
DIALOG_NO == "DIALOG_NO"
Answers == {DIALOG_CANCEL, DIALOG_YES, DIALOG_NO}

-----------------------------------------------------------------------------
(* commands/burn_firmware.py *)

\* paths.firmware_folder(board)
firmware_folder(b) == <<"f", "w", "/">> \o b

has_key(cfg, key) == \E i \in 1..Len(cfg) : cfg[i][1] = key
lookup(cfg, key) == cfg[CHOOSE i \in 1..Len(cfg) : cfg[i][1] = key][2]

\* mutant of option_of: the separator is a space for every key
option_of_spaced(key, value) == key \o <<" ">> \o value

\* "{0}{1}{2}".format(key, separator, value)
option_of(key, value) ==
    LET separator == IF endswith(key, <<"=">>) THEN <<>> ELSE <<" ">>
    IN  key \o separator \o value

\* the loop of get_board_options over board_file['upload'].items()
RECURSIVE upload_options(_)
upload_options(upload) ==
    IF upload = <<>> THEN <<>>
    ELSE LET key == upload[1][1]
             value == upload[1][2]
         IN  IF ~contains(key, WRITE_FLASH)
             THEN <<option_of(key, value)>> \o upload_options(Tail(upload))
             ELSE upload_options(Tail(upload))

\* mutant of get_board_options: the loop does not skip the reserved key
get_board_options_unfiltered(b) ==
    LET upload == board_files[b]
        every == [i \in 1..Len(upload) |-> option_of(upload[i][1], upload[i][2])]
    IN  IF ~has_key(upload, WRITE_FLASH)
        THEN [exc |-> "KeyError", list |-> <<>>]
        ELSE [exc |-> "none",
              list |-> Append(every,
                              <<"w", "r", "i", "t", "e", "_", "f", "l", "a", "s", "h", " ">>
                                  \o lookup(upload, WRITE_FLASH))]

\* get_board_options(board): the list returned, or the KeyError raised
get_board_options(b) ==
    LET upload == board_files[b]
    IN  IF ~has_key(upload, WRITE_FLASH)
        THEN [exc |-> "KeyError", list |-> <<>>]
        ELSE [exc |-> "none",
              list |-> Append(upload_options(upload),
                              <<"w", "r", "i", "t", "e", "_", "f", "l", "a", "s", "h", " ">>
                                  \o lookup(upload, WRITE_FLASH))]

FEv(e, a) == [ev |-> e, args |-> a]

FlashInit ==
    /\ board_files \in { [b \in Boards |-> IF b = ESP32 THEN c ELSE o] :
                            c \in Configs, o \in OtherConfigs }
    /\ board \in Boards
    /\ self_port = NoPort
    /\ items = <<>>
    /\ firmwares = <<>>
    /\ url = <<>>
    /\ options = <<>>
    /\ compiled = [exc |-> "none", list |-> <<>>]
    /\ answer = "none"
    /\ fpc = "idle"
    /\ ftrace = <<>>

\* run(selected), lines 48-66
run(selected) ==
    /\ fpc \in {"idle", "returned", "raised"}
    /\ \E p \in Ports \cup {NoPort} :
         /\ self_port' = p
         /\ ftrace' = <<>>
         /\ answer' = "none"
         /\ options' = <<>>
         /\ IF p = NoPort
            THEN /\ fpc' = "returned"
                 /\ UNCHANGED <<items, firmwares>>
            ELSE IF ~selected
            THEN /\ fpc' = "returned"
                 /\ items' = <<>>
                 /\ UNCHANGED firmwares
            ELSE /\ firmwares' = firmware_folder(board)
                 /\ items' = FirmwareFiles
                 /\ fpc' = "panel"
    /\ UNCHANGED <<board_files, board, url, compiled, sampy_vars>>

\* the upiot_select_board command that run starts when nothing is selected
select_board ==
    /\ fpc \in {"idle", "returned", "raised"}
    /\ \E b \in Boards : board' = b
    /\ UNCHANGED <<board_files, self_port, items, firmwares, url, options,
                   compiled, answer, fpc, ftrace, sampy_vars>>

\* callback_selection(selection), lines 68-81
callback_selection(selection) ==
    /\ fpc = "panel"
    /\ IF selection = -1
       THEN /\ fpc' = "returned"
            /\ UNCHANGED url
       ELSE /\ url' = items[selection + 1]
            /\ fpc' = "burn"
    /\ UNCHANGED <<board_files, board, self_port, items, firmwares, options,
                   compiled, answer, ftrace, sampy_vars>>

\* burn_firmware, lines 99-106: the plan, then the erase prompt
burn_firmware_plan ==
    /\ fpc = "burn"
    /\ LET filename == last_segment(url)
           firmware == join(firmwares, filename)
           got == get_board_options(ESP32)
       IN  /\ compiled' = got
           /\ IF got.exc # "none"
              THEN /\ fpc' = "raised"
                   /\ UNCHANGED <<options, answer>>
              ELSE /\ options' = Append(got.list, firmware)
                   /\ \E a \in Answers : answer' = a
                   /\ fpc' = "answered"
    /\ UNCHANGED <<board_files, board, self_port, items, firmwares, url, ftrace,
                   sampy_vars>>

\* mutant of burn_steps: the console is shown before the answer is looked at
burn_steps_console_first(ans, reachable) ==
    LET shown == <<FEv("show_console", <<>>)>>
        erased == IF ans = DIALOG_YES
                  THEN Append(shown, FEv("erase_flash", <<>>))
                  ELSE shown
        opts == << <<"-", "-", "p", "o", "r", "t", " ">> \o self_port >> \o options
    IN  IF ans = DIALOG_CANCEL
        THEN [options |-> options, steps |-> shown]
        ELSE IF ~reachable
        THEN [options |-> opts,
              steps |-> Append(erased, FEv("check_port_failed", <<>>))]
        ELSE [options |-> opts,
              steps |-> erased \o <<FEv("check_port_ok", <<>>),
                                    FEv("run_command", opts)>>]

\* mutant of burn_steps: the outcome of check_port is not acted on
burn_steps_unchecked(ans, reachable) ==
    IF ans = DIALOG_CANCEL
    THEN [options |-> options, steps |-> <<>>]
    ELSE LET shown == <<FEv("show_console", <<>>)>>
             erased == IF ans = DIALOG_YES
                       THEN Append(shown, FEv("erase_flash", <<>>))
                       ELSE shown
             opts == << <<"-", "-", "p", "o", "r", "t", " ">> \o self_port >>
                         \o options
         IN  [options |-> opts,
              steps |-> erased \o <<FEv(IF reachable THEN "check_port_ok"
                                        ELSE "check_port_failed", <<>>),
                                    FEv("run_command", opts)>>]

\* mutant of burn_steps: the port argument is appended, not inserted at 0
burn_steps_port_last(ans, reachable) ==
    IF ans = DIALOG_CANCEL
    THEN [options |-> options, steps |-> <<>>]
    ELSE LET shown == <<FEv("show_console", <<>>)>>
             erased == IF ans = DIALOG_YES
                       THEN Append(shown, FEv("erase_flash", <<>>))
                       ELSE shown
             opts == Append(options, <<"-", "-", "p", "o", "r", "t", " ">> \o self_port)
         IN  IF ~reachable
             THEN [options |-> opts,
                   steps |-> Append(erased, FEv("check_port_failed", <<>>))]
             ELSE [options |-> opts,
                   steps |-> erased \o <<FEv("check_port_ok", <<>>),
                                         FEv("run_command", opts)>>]

\* mutant of burn_steps: the erase step runs for the answer No as well
burn_steps_erase_always(ans, reachable) ==
    IF ans = DIALOG_CANCEL
    THEN [options |-> options, steps |-> <<>>]
    ELSE LET erased == <<FEv("show_console", <<>>), FEv("erase_flash", <<>>)>>
             opts == << <<"-", "-", "p", "o", "r", "t", " ">> \o self_port >>
                         \o options
         IN  IF ~reachable
             THEN [options |-> opts,
                   steps |-> Append(erased, FEv("check_port_failed", <<>>))]
             ELSE [options |-> opts,
                   steps |-> erased \o <<FEv("check_port_ok", <<>>),
                                         FEv("run_command", opts)>>]

\* mutant of burn_steps: the flashing process is run before the port check
burn_steps_check_late(ans, reachable) ==
    IF ans = DIALOG_CANCEL
    THEN [options |-> options, steps |-> <<>>]
    ELSE LET shown == <<FEv("show_console", <<>>)>>
             erased == IF ans = DIALOG_YES
                       THEN Append(shown, FEv("erase_flash", <<>>))
                       ELSE shown
             opts == << <<"-", "-", "p", "o", "r", "t", " ">> \o self_port >>
                         \o options
         IN  [options |-> opts,
              steps |-> erased \o <<FEv("run_command", opts),
                                    FEv(IF reachable THEN "check_port_ok"
                                        ELSE "check_port_failed", <<>>)>>]

\* burn_firmware, lines 108-124, for the answer ans and the outcome reachable
\* of serial.check_port: the list options and the steps taken, in order
burn_steps(ans, reachable) ==
    IF ans = DIALOG_CANCEL
    THEN [options |-> options, steps |-> <<>>]
    ELSE LET shown == <<FEv("show_console", <<>>)>>
             erased == IF ans = DIALOG_YES
                       THEN Append(shown, FEv("erase_flash", <<>>))
                       ELSE shown
             opts == << <<"-", "-", "p", "o", "r", "t", " ">> \o self_port >>
                         \o options
         IN  IF ~reachable
             THEN [options |-> opts,
                   steps |-> Append(erased, FEv("check_port_failed", <<>>))]
             ELSE [options |-> opts,
                   steps |-> erased \o <<FEv("check_port_ok", <<>>),
                                         FEv("run_command", opts)>>]

\* burn_firmware, lines 108-124: from the answer to the end
burn_firmware ==
    /\ fpc = "answered"
    /\ \E reachable \in BOOLEAN :
         LET b == burn_steps(answer, reachable)
         IN  /\ options' = b.options
             /\ ftrace' = ftrace \o b.steps
    /\ fpc' = "returned"
    /\ UNCHANGED <<board_files, board, self_port, items, firmwares, url,
                   compiled, answer, sampy_vars>>

-----------------------------------------------------------------------------
(* tools/sampy_manager.py: values *)

Tasks == {1, 2}

\* the value None
PyNone == <<"None">>
\* a Sampy object
SampyObj == <<"Sampy">>

Ops == {"run_file", "list_files", "get_file", "get_files", "put_file",
        "remove_file", "make_folder", "remove_folder", "help"}

\* the path or name a dispatch function is given
Paths == { <<"boot.py">>, <<"src", "/", "main.py">> }

\* the names sampy.ls() lists: a file and a folder
Names == { <<"boot.py">>, <<"lib", "/">> }

\* the tokens of a fetched file
ContentTokens == {"a", "\r", "\n"}

\* str(e) of a failure raised by a Session call
Messages == { <<"No such file">>, <<"failed", "\r", "\n", "reason">> }

NotReady == <<"Opening console...", "\n", "Run the command again.">>
Done == <<"[done]">>
serialError_noaccess == <<"errors.serialError_noaccess">>
HelpText == <<"\n", "\n", "Usage: sampy COMMAND [ARGS]...", "\n", "\n", "Commands: ...">>

\* os.path.basename(p)
basename(p) == last_segment(p)

Ev(e, s, text) == [ev |-> e, sink |-> s, text |-> text]
\* txt.print(text)
txt_print(text) == Ev("print", txt, text)

\* the events e of a trace
Only(tr, e) == SelectSeq(tr, LAMBDA x : x.ev = e)
\* the texts printed in a trace, concatenated
RECURSIVE Rendered(_)
Rendered(tr) ==
    IF tr = <<>> THEN <<>>
    ELSE (IF tr[1].ev = "print" THEN tr[1].text ELSE <<>>) \o Rendered(Tail(tr))

-----------------------------------------------------------------------------
(* The collaborators of sampy_manager.py whose code is not in src/: the     *)
(* serial registry, the Sampy constructor and the Sampy calls, after the    *)
(* Port Registry, Session and Operation outcome of the specification.       *)

Registry == [in_use |-> in_use, nopen |-> nopen]

\* serial.serial_dict[p].stop_task(): the session of p is closed
stop_task(p, r) ==
    [in_use |-> r.in_use \ {p},
     nopen |-> [r.nopen EXCEPT ![p] = IF @ > 0 THEN @ - 1 ELSE 0]]

\* Sampy(p, ...) succeeding: one more session is Open on p
Sampy(p, r) ==
    [in_use |-> r.in_use \cup {p},
     nopen |-> [r.nopen EXCEPT ![p] = @ + 1]]

\* the ways the connection attempt of Sampy(p, ...) ends
ConnectOutcomes == {"ok", "failed to access", "PyboardError"}

\* serial.establish_connection(p): a session request on p replaces the one
\* there (stopped first); it opens a session when the device answers
establish_connection(p, answers, r) ==
    IF p = NoPort THEN r
    ELSE LET stopped == IF p \in r.in_use THEN stop_task(p, r) ELSE r
         IN  IF answers THEN Sampy(p, stopped) ELSE stopped

\* the exceptions a call on an open Sampy raises: remote-reported failures,
\* and local file failures for the calls that read or write a local file
Raises(o) ==
    {"RuntimeError", "PyboardError"}
        \cup (IF o = "make_folder" THEN {"DirectoryExistsError"} ELSE {})
        \cup (IF o \in {"run_file", "put_file", "get_files"}
              THEN {"FileNotFoundError"} ELSE {})

\* what a call on an open Sampy returns
Returns(o) ==
    CASE o = "list_files" -> SeqUpTo(Names, MaxEntries)
      [] o = "get_files" -> SeqUpTo(Names, MaxEntries)
      [] o = "get_file" -> SeqUpTo(ContentTokens, MaxContent)
      [] OTHER -> {<<>>}

\* the outcomes of the call sampy.<o>(...) of task t
SessionCall(t, o) ==
    IF sampy[t] = PyNone
    THEN {[exc |-> "AttributeError", msg |-> <<"no attribute">>, val |-> <<>>]}
    ELSE {[exc |-> "ok", msg |-> <<>>, val |-> v] : v \in Returns(o)}
         \cup {[exc |-> e, msg |-> m, val |-> <<>>] : e \in Raises(o), m \in Messages}

-----------------------------------------------------------------------------
(* tools/sampy_manager.py *)

SampyInit ==
    /\ txt = PyNone
    /\ port = NoPort
    /\ in_use \in SUBSET Ports
    /\ nopen = [p \in Ports |-> IF p \in in_use THEN 1 ELSE 0]
    /\ pc = [t \in Tasks |-> "idle"]
    /\ op = [t \in Tasks |-> "none"]
    /\ arg = [t \in Tasks |-> <<>>]
    /\ sampy = [t \in Tasks |-> PyNone]
    /\ error = [t \in Tasks |-> FALSE]
    /\ fault = [t \in Tasks |-> "none"]
    /\ nopen0 = [t \in Tasks |-> nopen]
    /\ trace = [t \in Tasks |-> <<>>]

\* mutant of start_sampy: the running session of the port is not stopped
start_sampy_no_stop(quiet, selected, connect) ==
    LET r1 == Registry
        ev1 == <<Ev("message.open", selected, <<>>), Ev("set_focus", selected, <<>>)>>
    IN  IF selected # NoPort /\ ~quiet
        THEN IF connect = "ok"
             THEN [port |-> selected, txt |-> selected, reg |-> Sampy(selected, r1),
                   events |-> Append(ev1, Ev("Sampy", selected, <<connect>>)),
                   ret |-> SampyObj, exc |-> "none"]
             ELSE [port |-> selected, txt |-> selected, reg |-> r1,
                   events |-> Append(ev1, Ev("Sampy", selected, <<connect>>)),
                   ret |-> PyNone, exc |-> "NameError"]
        ELSE [port |-> selected, txt |-> selected, reg |-> r1,
              events |-> ev1, ret |-> PyNone, exc |-> "none"]

\* mutant of start_sampy: quiet is not looked at
start_sampy_not_quiet(quiet, selected, connect) ==
    LET r0 == Registry
        stops == selected \in r0.in_use
        r1 == IF stops THEN stop_task(selected, r0) ELSE r0
        ev1 == (IF stops THEN <<Ev("stop_task", selected, <<>>)>> ELSE <<>>)
                 \o <<Ev("message.open", selected, <<>>),
                      Ev("set_focus", selected, <<>>)>>
    IN  IF selected # NoPort
        THEN IF connect = "ok"
             THEN [port |-> selected, txt |-> selected, reg |-> Sampy(selected, r1),
                   events |-> Append(ev1, Ev("Sampy", selected, <<connect>>)),
                   ret |-> SampyObj, exc |-> "none"]
             ELSE [port |-> selected, txt |-> selected, reg |-> r1,
                   events |-> Append(ev1, Ev("Sampy", selected, <<connect>>)),
                   ret |-> PyNone, exc |-> "NameError"]
        ELSE [port |-> selected, txt |-> selected, reg |-> r1,
              events |-> ev1, ret |-> PyNone, exc |-> "none"]

\* start_sampy(quiet), lines 37-68, when serial.selected_port() is selected
\* and the connection attempt ends as connect
start_sampy(quiet, selected, connect) ==
    LET r0 == Registry
        stops == selected \in r0.in_use /\ ~quiet
        r1 == IF stops THEN stop_task(selected, r0) ELSE r0
        ev1 == (IF stops THEN <<Ev("stop_task", selected, <<>>)>> ELSE <<>>)
                 \o <<Ev("message.open", selected, <<>>),
                      Ev("set_focus", selected, <<>>)>>
    IN  IF selected # NoPort /\ ~quiet
        THEN IF connect = "ok"
             THEN [port |-> selected, txt |-> selected, reg |-> Sampy(selected, r1),
                   events |-> Append(ev1, Ev("Sampy", selected, <<connect>>)),
                   ret |-> SampyObj, exc |-> "none"]
             \* line 62 names file.PyboardError and the module has no name
             \* file: matching the exception raises NameError
             ELSE [port |-> selected, txt |-> selected, reg |-> r1,
                   events |-> Append(ev1, Ev("Sampy", selected, <<connect>>)),
                   ret |-> PyNone, exc |-> "NameError"]
        ELSE [port |-> selected, txt |-> selected, reg |-> r1,
              events |-> ev1, ret |-> PyNone, exc |-> "none"]

\* the first statement of a dispatch function: sampy = start_sampy(...)
Dispatch(t, o, a) ==
    /\ pc[t] = "idle"
    /\ \E selected \in Ports \cup {NoPort}, connect \in ConnectOutcomes :
         LET s == start_sampy(o = "help", selected, connect)
         IN  /\ (selected = NoPort \/ o = "help") => connect = "ok"
             /\ port' = s.port
             /\ txt' = s.txt
             /\ in_use' = s.reg.in_use
             /\ nopen' = s.reg.nopen
             /\ sampy' = [sampy EXCEPT ![t] = s.ret]
             /\ trace' = [trace EXCEPT ![t] = s.events]
             /\ fault' = [fault EXCEPT ![t] = s.exc]
             /\ pc' = [pc EXCEPT ![t] = IF s.exc = "none" THEN "body" ELSE "raised"]
    /\ op' = [op EXCEPT ![t] = o]
    /\ arg' = [arg EXCEPT ![t] = a]
    /\ error' = [error EXCEPT ![t] = FALSE]
    /\ nopen0' = [nopen0 EXCEPT ![t] = nopen]
    /\ UNCHANGED flash_vars

\* the statements of a dispatch function between start_sampy and
\* finished_action print tr and end caught or with the exception escaped
Body(t, tr, escaped) ==
    /\ trace' = [trace EXCEPT ![t] = trace[t] \o tr]
    /\ pc' = [pc EXCEPT ![t] = IF escaped = "none" THEN "finish" ELSE "raised"]
    /\ fault' = [fault EXCEPT ![t] = escaped]
    /\ UNCHANGED <<txt, port, in_use, nopen, op, arg, sampy, nopen0, flash_vars>>

Call(name) == Ev("call", txt, <<name>>)

\* mutant of run_file: the header is printed after the call
run_file_late_header(t) ==
    /\ pc[t] = "body" /\ op[t] = "run_file"
    /\ \E r \in SessionCall(t, "run_file") :
         LET head == txt_print(<<"\n", "\n", ">> Run ">> \o basename(arg[t])
                               \o <<"\n", "\n", "\"ctrl+shift+c\" to stop the script.",
                                    "\n", "---">>)
         IN  CASE r.exc = "ok" ->
                    Body(t, <<Call("run"), head, txt_print(<<"\n">> \o Done)>>, "none")
               [] r.exc = "AttributeError" ->
                    Body(t, <<Call("run"), head,
                              txt_print(<<"\n", "\n">> \o NotReady)>>, "none")
               [] OTHER -> Body(t, <<Call("run")>>, r.exc)
    /\ UNCHANGED error

\* run_file(filepath), lines 94-106
run_file(t) ==
    /\ pc[t] = "body" /\ op[t] = "run_file"
    /\ \E r \in SessionCall(t, "run_file") :
         LET head == txt_print(<<"\n", "\n", ">> Run ">> \o basename(arg[t])
                           \o <<"\n", "\n", "\"ctrl+shift+c\" to stop the script.",
                                "\n", "---">>)
         IN  CASE r.exc = "ok" ->
                    Body(t, <<head, Call("run"), txt_print(<<"\n">> \o Done)>>, "none")
               [] r.exc = "AttributeError" ->
                    Body(t, <<head, Call("run"),
                              txt_print(<<"\n", "\n">> \o NotReady)>>, "none")
               [] OTHER -> Body(t, <<head, Call("run")>>, r.exc)
    /\ UNCHANGED error

\* the prints of the loop of list_files, lines 121-122
RECURSIVE print_names(_)
print_names(names) ==
    IF names = <<>> THEN <<>>
    ELSE <<txt_print(<<"\n">> \o names[1])>> \o print_names(Tail(names))

\* list_files(), lines 116-124
list_files(t) ==
    /\ pc[t] = "body" /\ op[t] = "list_files"
    /\ \E r \in SessionCall(t, "list_files") :
         LET head == txt_print(<<"\n", "\n", ">> sampy ls", "\n">>)
         IN  CASE r.exc = "ok" ->
                    Body(t, <<head, Call("ls")>> \o print_names(r.val), "none")
               [] r.exc = "AttributeError" ->
                    Body(t, <<head, Call("ls"),
                              txt_print(<<"\n", "\n">> \o NotReady)>>, "none")
               [] OTHER -> Body(t, <<head, Call("ls")>>, r.exc)
    /\ UNCHANGED error

\* mutant of normalize: the second replace is missing
normalize_crlf_only(output) == replace(output, <<"\r", "\n">>, <<"\n">>)

\* output.replace('\r\n', '\n').replace('\r', '\n'), line 145
normalize(output) == replace(replace(output, <<"\r", "\n">>, <<"\n">>), <<"\r">>, <<"\n">>)

\* get_file(filename), lines 137-147
get_file(t) ==
    /\ pc[t] = "body" /\ op[t] = "get_file"
    /\ \E r \in SessionCall(t, "get_file") :
         LET head == txt_print(<<"\n", "\n", ">> get ">> \o arg[t])
         IN  CASE r.exc = "ok" ->
                    Body(t, <<head, Call("get"), Ev("output", txt, r.val),
                              txt_print(<<"\n", "\n">> \o normalize(r.val))>>, "none")
               [] r.exc = "RuntimeError" ->
                    Body(t, <<head, Call("get"), Ev("output", txt, r.msg),
                              txt_print(<<"\n", "\n">> \o normalize(r.msg))>>, "none")
               [] OTHER -> Body(t, <<head, Call("get")>>, r.exc)
    /\ UNCHANGED error

\* the loop body of get_files, lines 168-176, for the entries fetched whole
RECURSIVE retrieve(_, _)
retrieve(names, exists) ==
    IF names = <<>> THEN <<>>
    ELSE <<txt_print(<<"\n", "Retrieving ">> \o names[1] \o <<" ...">>)>>
         \o (IF endswith(names[1], <<"/">>)
             THEN (IF exists THEN <<>> ELSE <<Ev("mkdir", txt, names[1])>>)
             ELSE <<Ev("open", txt, names[1]), Call("get")>>)
         \o retrieve(Tail(names), exists)

\* get_files(destination), lines 158-182
get_files(t) ==
    /\ pc[t] = "body" /\ op[t] = "get_files"
    /\ \E r \in SessionCall(t, "get_files"), exists \in BOOLEAN :
         LET head == <<Ev("mkfolder", txt, arg[t]),
                       txt_print(<<"\n", "\n", ">> Storing in ">> \o arg[t] \o <<"\n">>),
                       Call("ls")>>
         IN  CASE r.exc = "AttributeError" ->
                    /\ Body(t, Append(head, txt_print(<<"\n", "\n">> \o NotReady)), "none")
                    /\ error' = [error EXCEPT ![t] = TRUE]
               [] r.exc = "ok" ->
                    \/ /\ Body(t, head \o retrieve(r.val, exists)
                                    \o <<txt_print(<<"\n", "\n">> \o Done)>>, "none")
                       /\ UNCHANGED error
                    \* the entry k is a file and fetching it fails: open()
                    \* raises, or sampy.get(filename, file) does
                    \/ \E k \in 1..Len(r.val), e \in Raises("get_files") :
                         /\ ~endswith(r.val[k], <<"/">>)
                         /\ Body(t, head \o retrieve(SubSeq(r.val, 1, k - 1), exists)
                                      \o <<txt_print(<<"\n", "Retrieving ">> \o r.val[k]
                                                       \o <<" ...">>)>>
                                      \o (IF e = "FileNotFoundError" THEN <<>>
                                          ELSE <<Ev("open", txt, r.val[k]), Call("get")>>),
                                 e)
                         /\ UNCHANGED error
               [] OTHER -> /\ Body(t, head, r.exc)
                           /\ UNCHANGED error

\* put_file(filepath), lines 216-235
put_file(t) ==
    /\ pc[t] = "body" /\ op[t] = "put_file"
    /\ \E r \in SessionCall(t, "put_file") :
         LET head == txt_print(<<"\n", "\n", ">> put ">> \o basename(arg[t]))
         IN  CASE r.exc = "ok" ->
                    Body(t, <<head, Call("put"), txt_print(<<"\n", "\n">> \o Done)>>, "none")
               [] r.exc = "FileNotFoundError" ->
                    Body(t, <<head, Call("put"), txt_print(<<"\n", "\n">> \o r.msg)>>, "none")
               [] r.exc = "PyboardError" ->
                    \* line 229: return finished_action()
                    Body(t, <<head, Call("put"),
                              txt_print(<<"\n", "\n", "Error putting the file.", "\n",
                                          "Reason: ">> \o r.msg)>>, "none")
               [] r.exc = "AttributeError" ->
                    Body(t, <<head, Call("put"), txt_print(<<"\n", "\n">> \o NotReady)>>,
                         "none")
               \* the outer handler, line 234, catches TypeError alone
               [] OTHER -> Body(t, <<head, Call("put")>>, r.exc)
    /\ UNCHANGED error

\* remove_file(filepath), lines 248-261
remove_file(t) ==
    /\ pc[t] = "body" /\ op[t] = "remove_file"
    /\ \E r \in SessionCall(t, "remove_file") :
         LET head == txt_print(<<"\n", "\n", ">> rm ">> \o basename(arg[t]))
         IN  CASE r.exc = "ok" ->
                    Body(t, <<head, Call("rm"), txt_print(<<"\n", "\n">> \o Done)>>, "none")
               [] r.exc = "RuntimeError" ->
                    Body(t, <<head, Call("rm"), txt_print(<<"\n", "\n">> \o r.msg)>>, "none")
               [] r.exc = "AttributeError" ->
                    Body(t, <<head, Call("rm"), txt_print(<<"\n", "\n">> \o NotReady)>>,
                         "none")
               [] OTHER -> Body(t, <<head, Call("rm")>>, r.exc)
    /\ UNCHANGED error

\* make_folder(folder_name), lines 274-286
make_folder(t) ==
    /\ pc[t] = "body" /\ op[t] = "make_folder"
    /\ \E r \in SessionCall(t, "make_folder") :
         LET head == txt_print(<<"\n", "\n", ">> mkdir ">> \o arg[t])
         IN  CASE r.exc = "ok" ->
                    Body(t, <<head, Call("mkdir"), txt_print(<<"\n", "\n">> \o Done)>>,
                         "none")
               [] r.exc = "DirectoryExistsError" ->
                    Body(t, <<head, Call("mkdir"), txt_print(<<"\n", "\n">> \o r.msg)>>,
                         "none")
               [] r.exc = "AttributeError" ->
                    Body(t, <<head, Call("mkdir"), txt_print(<<"\n", "\n">> \o NotReady)>>,
                         "none")
               [] OTHER -> Body(t, <<head, Call("mkdir")>>, r.exc)
    /\ UNCHANGED error

\* remove_folder(folder_name), lines 299-311
remove_folder(t) ==
    /\ pc[t] = "body" /\ op[t] = "remove_folder"
    /\ \E r \in SessionCall(t, "remove_folder") :
         LET head == txt_print(<<"\n", "\n", ">> rmdir ">> \o arg[t])
         IN  CASE r.exc = "ok" ->
                    Body(t, <<head, Call("rmdir"), txt_print(<<"\n", "\n">> \o Done)>>,
                         "none")
               [] r.exc = "RuntimeError" ->
                    Body(t, <<head, Call("rmdir"), txt_print(<<"\n", "\n">> \o r.msg)>>,
                         "none")
               [] r.exc = "AttributeError" ->
                    Body(t, <<head, Call("rmdir"), txt_print(<<"\n", "\n">> \o NotReady)>>,
                         "none")
               [] OTHER -> Body(t, <<head, Call("rmdir")>>, r.exc)
    /\ UNCHANGED error

\* help(), lines 321-346
help(t) ==
    /\ pc[t] = "body" /\ op[t] = "help"
    /\ Body(t, <<txt_print(HelpText)>>, "none")
    /\ UNCHANGED error

\* finished_action(), lines 71-81
finished_action(t) ==
    /\ pc[t] = "finish"
    /\ \E answers \in BOOLEAN :
         LET r == establish_connection(port, answers, Registry)
         IN  /\ in_use' = r.in_use
             /\ nopen' = r.nopen
    /\ trace' = [trace EXCEPT ![t] = Append(@, Ev("finished_action", port, <<>>))]
    /\ pc' = [pc EXCEPT ![t] = IF op[t] = "get_files" THEN "after" ELSE "returned"]
    /\ UNCHANGED <<txt, port, op, arg, sampy, error, fault, nopen0, flash_vars>>

\* get_files(destination), lines 186-205: after finished_action
get_files_after(t) ==
    /\ pc[t] = "after"
    /\ \E in_sidebar \in BOOLEAN, a \in Answers :
         trace' = [trace EXCEPT ![t] =
                     IF error[t] THEN @
                     ELSE IF in_sidebar
                     THEN Append(@, Ev("check_sidebar_folder", txt, <<"True">>))
                     ELSE IF a = DIALOG_CANCEL
                     THEN @ \o <<Ev("check_sidebar_folder", txt, <<"False">>),
                                 Ev("yes_no_cancel_dialog", txt, <<a>>)>>
                     ELSE @ \o <<Ev("check_sidebar_folder", txt, <<"False">>),
                                 Ev("yes_no_cancel_dialog", txt, <<a>>),
                                 Ev("upiot_add_project", txt,
                                    <<IF a = DIALOG_YES THEN "append=False"
                                      ELSE "append=True">>)>>]
    /\ pc' = [pc EXCEPT ![t] = "returned"]
    /\ UNCHANGED <<txt, port, in_use, nopen, op, arg, sampy, error, fault, nopen0,
                   flash_vars>>

\* the dispatch function has returned, or the exception has left it: its
\* locals are gone and the task is free for the next request
Return(t) ==
    /\ pc[t] \in {"returned", "raised"}
    /\ pc' = [pc EXCEPT ![t] = "idle"]
    /\ op' = [op EXCEPT ![t] = "none"]
    /\ arg' = [arg EXCEPT ![t] = <<>>]
    /\ sampy' = [sampy EXCEPT ![t] = PyNone]
    /\ error' = [error EXCEPT ![t] = FALSE]
    /\ fault' = [fault EXCEPT ![t] = "none"]
    /\ nopen0' = [nopen0 EXCEPT ![t] = nopen]
    /\ trace' = [trace EXCEPT ![t] = <<>>]
    /\ UNCHANGED <<txt, port, in_use, nopen, flash_vars>>

\* the argument a dispatch function takes
ArgsOf(o) == IF o \in {"list_files", "help"} THEN {<<>>} ELSE Paths

\* the steps of the dispatch of task t
TaskNext(t) ==
    \/ \E o \in Ops : \E a \in ArgsOf(o) : Dispatch(t, o, a)
    \/ run_file(t)
    \/ list_files(t)
    \/ get_file(t)
    \/ get_files(t)
    \/ put_file(t)
    \/ remove_file(t)
    \/ make_folder(t)
    \/ remove_folder(t)
    \/ help(t)
    \/ finished_action(t)
    \/ get_files_after(t)
    \/ Return(t)

-----------------------------------------------------------------------------
(* Specifications *)

\* the state of the flash command while dispatches run
FlashIdle ==
    /\ board_files = [b \in Boards |-> << <<WRITE_FLASH, <<"d", "i", "o">> >> >>]
    /\ board = ESP32
    /\ self_port = NoPort
    /\ items = <<>>
    /\ firmwares = <<>>
    /\ url = <<>>
    /\ options = <<>>
    /\ compiled = [exc |-> "none", list |-> <<>>]
    /\ answer = "none"
    /\ fpc = "idle"
    /\ ftrace = <<>>

\* the state of the dispatcher while a flash runs
SampyIdle ==
    /\ txt = PyNone
    /\ port = NoPort
    /\ in_use = {}
    /\ nopen = [p \in Ports |-> 0]
    /\ pc = [t \in Tasks |-> "idle"]
    /\ op = [t \in Tasks |-> "none"]
    /\ arg = [t \in Tasks |-> <<>>]
    /\ sampy = [t \in Tasks |-> PyNone]
    /\ error = [t \in Tasks |-> FALSE]
    /\ fault = [t \in Tasks |-> "none"]
    /\ nopen0 = [t \in Tasks |-> nopen]
    /\ trace = [t \in Tasks |-> <<>>]

\* The dispatches of sampy_manager.py, run one after another by one task
Init == SampyInit /\ FlashIdle
Next == TaskNext(1)
Spec == Init /\ [][Next]_vars

\* the dispatch function each of the two concurrent tasks calls
ConcOps == <<"remove_file", "make_folder">>

\* Two background tasks, each running one dispatch, their steps interleaved
NextConc ==
    \E t \in Tasks :
        \/ \E a \in ArgsOf(ConcOps[t]) : Dispatch(t, ConcOps[t], a)
        \/ remove_file(t)
        \/ make_folder(t)
        \/ finished_action(t)
SpecConc == Init /\ [][NextConc]_vars

\* The flash requests of burn_firmware.py
InitFlash == FlashInit /\ SampyIdle
NextFlash ==
    \/ \E selected \in BOOLEAN : run(selected)
    \/ select_board
    \/ \E selection \in -1..(Len(items) - 1) : callback_selection(selection)
    \/ burn_firmware_plan
    \/ burn_firmware
SpecFlash == InitFlash /\ [][NextFlash]_vars

-----------------------------------------------------------------------------
(* Properties *)

Terminal == {"returned", "raised"}
Finishes(t) == Len(Only(trace[t], "finished_action"))
Has(tr, e) == \E i \in 1..Len(tr) : tr[i].ev = e
FHas(e) == \E i \in 1..Len(ftrace) : ftrace[i].ev = e

\* C1: whenever a dispatch whose start_sampy returned has ended, by return
\* or by an exception, finished_action has run exactly once in it.
C1_FinishedExactlyOnce ==
    \A t \in Tasks :
        (pc[t] \in Terminal /\ fault[t] # "NameError") => Finishes(t) = 1

\* C2: no port ever has more than one session Open or Busy, the in-use set
\* is the set of ports that have one, and a connection attempt on a port
\* that had a session when the dispatch began comes after a stop_task on
\* that port.
C2_Exclusivity ==
    /\ \A p \in Ports : nopen[p] <= 1 /\ (p \in in_use <=> nopen[p] = 1)
    /\ \A t \in Tasks : \A i \in 1..Len(trace[t]) :
         (trace[t][i].ev = "Sampy" /\ nopen0[t][trace[t][i].sink] >= 1)
            => \E j \in 1..(i - 1) :
                 /\ trace[t][j].ev = "stop_task"
                 /\ trace[t][j].sink = trace[t][i].sink

\* C2 witness: a dispatch on a port that had a session has stopped it and
\* holds the only session of the port.
C2_Witness ==
    /\ pc[1] = "body" /\ sampy[1] = SampyObj
    /\ nopen0[1][port] = 1 /\ nopen[port] = 1
    /\ trace[1][1].ev = "stop_task"

\* the 'upload' object get_board_options('esp32') reads
Esp32Upload == board_files[ESP32]
WriteFlashArg ==
    <<"w", "r", "i", "t", "e", "_", "f", "l", "a", "s", "h", " ">>
        \o lookup(Esp32Upload, WRITE_FLASH)

\* C3: when the 'upload' object has the key write_flash, wherever it stands,
\* the list get_board_options returns has "write_flash " + value exactly
\* once, as its last element.
C3_WriteFlashLastOnce ==
    (fpc = "answered" /\ has_key(Esp32Upload, WRITE_FLASH)) =>
        /\ compiled.exc = "none"
        /\ Len(compiled.list) >= 1
        /\ Last(compiled.list) = WriteFlashArg
        /\ count(compiled.list, WriteFlashArg) = 1

\* C3 witness: write_flash is the first of three keys and get_board_options
\* has returned.
C3_Witness ==
    /\ fpc = "answered"
    /\ Len(Esp32Upload) = 3
    /\ Esp32Upload[1][1] = WRITE_FLASH
    /\ Len(compiled.list) = 3

\* C4: every element of the list get_board_options returns, the last one
\* (the write_flash argument) aside, is key + value for a key of the
\* 'upload' object ending in '=' and key + ' ' + value for another key.
C4_SeparatorRule ==
    (fpc = "answered") =>
        \A i \in 1..(Len(compiled.list) - 1) :
            \E j \in 1..Len(Esp32Upload) :
               LET key == Esp32Upload[j][1]
                   value == Esp32Upload[j][2]
               IN  /\ key # WRITE_FLASH
                   /\ compiled.list[i] =
                        IF Last(key) = "=" THEN key \o value
                        ELSE key \o <<" ">> \o value

\* C4 witness: a key ending in '=' and another key have both been emitted.
C4_Witness ==
    /\ fpc = "answered"
    /\ Len(compiled.list) = 3
    /\ compiled.list[1] = <<"-", "-", "f", "m", "=", "d", "i", "o">>
    /\ compiled.list[2] = <<"-", "z", " ", "d", "i", "o">>

HelpStart(p) == <<Ev("message.open", p, <<>>), Ev("set_focus", p, <<>>)>>

C6_NotReadyRendered ==
    \A t \in Tasks :
        (pc[t] \in Terminal /\ op[t] # "help" /\ sampy[t] = PyNone
            /\ fault[t] # "NameError") =>
            /\ endswith(Rendered(trace[t]), NotReady)
            /\ Finishes(t) = 1

\* C7: no remote-reported failure and no local file failure of a Session
\* call leaves the dispatch function.
C7_NoFailureEscapes ==
    \A t \in Tasks :
        fault[t] \notin {"RuntimeError", "PyboardError", "DirectoryExistsError",
                         "FileNotFoundError"}

\* C8: when the connection attempt of start_sampy has failed with no
\* access, the no-access diagnostic is printed, the status indicator is
\* removed, the request has ended and finished_action has not run.
C8_NoAccessIsReported ==
    \A t \in Tasks :
        (\E i \in 1..Len(trace[t]) :
            trace[t][i].ev = "Sampy" /\ trace[t][i].text = <<"failed to access">>) =>
            /\ pc[t] = "raised"
            /\ \E i \in 1..Len(trace[t]) :
                 trace[t][i].ev = "print" /\ trace[t][i].text = serialError_noaccess
            /\ Has(trace[t], "status_color.remove")
            /\ Finishes(t) = 0

\* C9: when the erase prompt is answered Cancel, the flash has ended with
\* nothing done: no console shown, no erase, no port check, no run of the
\* flashing process, and the list options without a port argument.
C9_CancelDoesNothing ==
    (fpc = "returned" /\ answer = DIALOG_CANCEL) =>
        /\ ftrace = <<>>
        /\ options = Append(compiled.list, join(firmwares, last_segment(url)))

\* C9 witness: a flash has ended on Cancel.
C9_Witness == fpc = "returned" /\ answer = DIALOG_CANCEL

\* C10: when check_port reported the port as not reachable, for the answer
\* Yes as for No, the flashing process has not been run.
C10_UnreachableNotFlashed ==
    (fpc = "returned" /\ FHas("check_port_failed")) => ~FHas("run_command")

\* C10 witness: a flash answered Yes has ended on an unreachable port.
C10_Witness ==
    /\ fpc = "returned" /\ answer = DIALOG_YES
    /\ FHas("check_port_failed")

\* the indexes of the steps e of the flash request
FIdx(e) == {i \in 1..Len(ftrace) : ftrace[i].ev = e}

\* C11: whenever burn_firmware runs the flashing process, its argument list
\* is "--port " + port, then the list get_board_options returned, whose last
\* element is the write_flash argument, then the firmware path.
C11_InvocationShape ==
    \A i \in FIdx("run_command") :
        LET a == ftrace[i].args
        IN  /\ Len(a) >= 3
            /\ a[1] = <<"-", "-", "p", "o", "r", "t", " ">> \o self_port
            /\ a[Len(a)] = join(firmwares, last_segment(url))
            /\ a[Len(a) - 1] = WriteFlashArg
            /\ SubSeq(a, 2, Len(a) - 1) = compiled.list

\* C11 witness: the flashing process has been run with two flags between
\* the port argument and the write_flash argument.
C11_Witness ==
    \E i \in FIdx("run_command") :
        /\ Len(ftrace[i].args) = 5
        /\ ftrace[i].args[4] = WriteFlashArg

\* the arguments the keys of upload other than write_flash ask for, in order
RECURSIVE ExpectedFlags(_)
ExpectedFlags(upload) ==
    IF upload = <<>> THEN <<>>
    ELSE (IF upload[1][1] # WRITE_FLASH
          THEN << IF Last(upload[1][1]) = "="
                  THEN upload[1][1] \o upload[1][2]
                  ELSE upload[1][1] \o <<" ">> \o upload[1][2] >>
          ELSE <<>>)
         \o ExpectedFlags(Tail(upload))

\* C15: the list get_board_options returns holds, before the write_flash
\* argument, one argument for every key other than write_flash, in the
\* declared order of the keys.
C15_CompleteEmission ==
    (fpc = "answered") =>
        SubSeq(compiled.list, 1, Len(compiled.list) - 1) = ExpectedFlags(Esp32Upload)

\* C18: when a flash has ended, the erase step was taken once if the answer
\* was Yes and not at all otherwise, and it precedes the run of the flashing
\* process.
C18_EraseIffYes ==
    (fpc = "returned") =>
        /\ Cardinality(FIdx("erase_flash")) = (IF answer = DIALOG_YES THEN 1 ELSE 0)
        /\ \A e \in FIdx("erase_flash") : \A w \in FIdx("run_command") : e < w

\* C18 witness: a flash answered Yes has erased and then run the flashing
\* process.
C18_Witness ==
    /\ fpc = "returned" /\ answer = DIALOG_YES
    /\ FIdx("erase_flash") # {} /\ FIdx("run_command") # {}

\* C19 as stated: every erase step and every run of the flashing process
\* comes after a check_port that reported the port reachable.
C19_CheckedBeforeAnyDeviceStep ==
    \A i \in FIdx("erase_flash") \cup FIdx("run_command") :
        \E c \in FIdx("check_port_ok") : c < i

\* C19 amended: every run of the flashing process comes after a check_port
\* that reported the port reachable, and the erase step comes before the
\* port check.
C19_CheckedBeforeWrite ==
    /\ \A w \in FIdx("run_command") : \E c \in FIdx("check_port_ok") : c < w
    /\ \A e \in FIdx("erase_flash") :
         \A c \in FIdx("check_port_ok") \cup FIdx("check_port_failed") : e < c

\* C19 witness: the flash was erased on a port that check_port then
\* reported as not reachable.
C19_Witness ==
    /\ fpc = "returned"
    /\ FIdx("erase_flash") # {} /\ FIdx("check_port_failed") # {}

\* C20: the list burn_firmware compiles is the one of the board selected,
\* whose firmware folder supplies the firmware path.
C20_PlanOfSelectedBoard ==
    (fpc = "answered") =>
        /\ firmwares = firmware_folder(board)
        /\ compiled = get_board_options(board)

\* the indexes of the events e of the dispatch of task t
Idx(t, e) == {i \in 1..Len(trace[t]) : trace[t][i].ev = e}

\* '\r\n' and '\r' each read as one line break, in one pass over the text
RECURSIVE LineBreaks(_)
LineBreaks(s) ==
    IF s = <<>> THEN <<>>
    ELSE IF s[1] = "\r"
         THEN <<"\n">> \o LineBreaks(IF Len(s) >= 2 /\ s[2] = "\n"
                                     THEN SubSeq(s, 3, Len(s)) ELSE Tail(s))
         ELSE <<s[1]>> \o LineBreaks(Tail(s))

\* C12: what get_file prints for a fetched content, or for the failure
\* message in its place, has no carriage return: it is the content with
\* every "\r\n" and every lone "\r" as one "\n".
C12_NoCarriageReturn ==
    \A t \in Tasks : \A i \in Idx(t, "output") :
        /\ i < Len(trace[t])
        /\ trace[t][i + 1].ev = "print"
        /\ trace[t][i + 1].text = <<"\n", "\n">> \o LineBreaks(trace[t][i].text)
        /\ \A k \in 1..Len(trace[t][i + 1].text) : trace[t][i + 1].text[k] # "\r"

\* C12 witness: get_file has printed a content that had a "\r\n" and a
\* lone "\r".
C12_Witness ==
    \E i \in Idx(1, "output") :
        /\ trace[1][i].text = <<"\r", "\n", "\r">>
        /\ trace[1][i + 1].text = <<"\n", "\n", "\n", "\n">>

HeaderTokens == {">> Run ", ">> sampy ls", ">> get ", ">> Storing in ", ">> put ",
                 ">> rm ", ">> mkdir ", ">> rmdir "}
IsHeader(e) == e.ev = "print" /\ Len(e.text) >= 3 /\ e.text[3] \in HeaderTokens

\* C13: in every dispatch the header is printed before any Session call,
\* every print and every Session call comes before finished_action, and,
\* list_files aside (an empty listing prints nothing), a print follows the
\* last Session call before finished_action.
C13_DispatchOrder ==
    \A t \in Tasks :
        /\ \A c \in Idx(t, "call") : \E h \in 1..(c - 1) : IsHeader(trace[t][h])
        /\ \A f \in Idx(t, "finished_action") :
             /\ \A j \in Idx(t, "print") \cup Idx(t, "call") : j < f
             /\ (op[t] # "list_files" /\ Idx(t, "call") # {}) =>
                  \E j \in Idx(t, "print") : \A c \in Idx(t, "call") : c < j

\* C13 witness: a put_file dispatch has printed its header, called the
\* Session, printed the outcome and run finished_action.
C13_Witness ==
    /\ op[1] = "put_file" /\ pc[1] = "returned"
    /\ Idx(1, "call") # {} /\ Idx(1, "finished_action") # {}

\* the port a dispatch of task t resolved
PortOf(t) == trace[t][CHOOSE i \in Idx(t, "message.open") : TRUE].sink
Between(t) == pc[t] \in {"body", "finish"}

\* C14: two tasks are never both between start_sampy and the end of
\* finished_action on the same port.
C14_SerializedPerPort ==
    \A t, u \in Tasks :
        (t # u /\ Between(t) /\ Between(u) /\ PortOf(t) \in Ports)
            => PortOf(t) # PortOf(u)

\* C16: a dispatch that opens quietly does not focus the sink.
C16_QuietDoesNotFocus ==
    \A t \in Tasks : op[t] = "help" => Idx(t, "set_focus") = {}

\* C17: a get_files dispatch whose fetching failed has printed the failure,
\* run finished_action once and shown no prompt; the prompt is shown only
\* after every entry was fetched and after finished_action, when the
\* destination is not in the project.
C17_BulkFetchFailure ==
    \A t \in Tasks :
        (op[t] = "get_files" /\ pc[t] \in Terminal /\ fault[t] # "NameError") =>
            /\ fault[t] = "none"
            /\ Finishes(t) = 1
            /\ error[t] => /\ Idx(t, "yes_no_cancel_dialog") = {}
                           /\ endswith(Rendered(trace[t]), NotReady)
            /\ \A d \in Idx(t, "yes_no_cancel_dialog") :
                 /\ \E f \in Idx(t, "finished_action") : f < d
                 /\ trace[t][d - 1] = Ev("check_sidebar_folder", txt, <<"False">>)
                 /\ endswith(Rendered(trace[t]), Done)

====
